---- MODULE Spec2Model ----
(***************************************************************************)
(* Minesweeper and its knowledge-based player (minesweeper.py).            *)
(*                                                                         *)
(* The model follows the three classes of the source: Minesweeper (the     *)
(* minefield, here the variable board), Sentence (a record of a cell set   *)
(* and a count) and MinesweeperAI (moves_made, safes, mines, knowledge).   *)
(* add_knowledge is modelled in steps: AddKnowledge is lines 200-222 (up   *)
(* to the append of the new sentence), ScanStep is one iteration of the    *)
(* `for sentence in self.knowledge` loop of lines 224-242 and ScanReturn   *)
(* is the exhaustion of that loop; no other operation runs while pc is     *)
(* "scan", so a call is atomic for its caller.                             *)
(*                                                                         *)
(* Four specifications drive it: Spec (a 4x4 game giving true hints),      *)
(* ApiSpec (any hint and the mark methods, on the diagonal of the 4x4      *)
(* board), TallSpec (any hint on a board of up to MaxHeight rows, where    *)
(* the cell sets of two sentences can be nested) and SentenceSpec (the     *)
(* class Sentence on its own).                                             *)
(***************************************************************************)
EXTENDS Integers, Sequences, FiniteSets, TLC

VARIABLES
    height,      \* MinesweeperAI.height
    width,       \* MinesweeperAI.width
    board,       \* Minesweeper.mines: the cells that hold a mine
    moves_made,  \* MinesweeperAI.moves_made
    safes,       \* MinesweeperAI.safes
    mines,       \* MinesweeperAI.mines
    knowledge,   \* MinesweeperAI.knowledge: a list of sentences
    pc,          \* "idle" between calls, "scan" inside the loop of add_knowledge
    idx,         \* position of the loop's iterator in knowledge (1-based)
    sPos,        \* position in knowledge of the object the local s refers to
    calls,       \* number of calls made so far
    op,          \* the last call: its name and arguments
    ret,         \* what the last call returned
    sen          \* the Sentence under test of the Sentence-level specification

vars == <<height, width, board, moves_made, safes, mines, knowledge, pc, idx, sPos, calls, op, ret, sen>>

-----------------------------------------------------------------------------
(* Bounds and program constants *)

Height == 4
Width == 4
NumMines == 2

\* Calls per run: of add_knowledge under Spec, of any method under ApiSpec.
MaxCalls == 2
MaxApiCalls == 3
\* Length of the knowledge list: the loop of add_knowledge can append to it
\* without end, so a step that would pass this length is not taken.
MaxKnowledge == 5
\* Largest count handed to add_knowledge under ApiSpec and TallSpec.
MaxCount == 2
\* Largest height MinesweeperAI is constructed with under TallSpec.
MaxHeight == 5

Cells == (0 .. Height - 1) \X (0 .. Width - 1)

None == <<>>

-----------------------------------------------------------------------------
(* Minesweeper *)

is_mine(b, cell) == cell \in b

\* The 3x3 block around cell, minus cell, clipped to the board (lines 66-76).
nearby_cells(cell) ==
    { n \in Cells :
        /\ n # cell
        /\ n[1] \in (cell[1] - 1) .. (cell[1] + 1)
        /\ n[2] \in (cell[2] - 1) .. (cell[2] + 1) }

nearby_mines(b, cell) == Cardinality({ n \in nearby_cells(cell) : is_mine(b, n) })

-----------------------------------------------------------------------------
(* Sentence *)

Sentence(cells, count) == [cells |-> cells, count |-> count]

\* known_mines with >= for ==: the variant C9 is checked against.
known_mines_atleast(s) ==
    IF Cardinality(s.cells) >= s.count /\ s.count # 0 THEN s.cells ELSE {}

known_mines(s) ==
    IF Cardinality(s.cells) = s.count /\ s.count # 0 THEN s.cells ELSE {}

known_safes(s) ==
    IF s.count = 0 THEN s.cells ELSE {}

\* mark_mine without the decrement of line 134: the variant C19 is checked
\* against.
Sentence_mark_mine_keeping(s, cell) ==
    IF cell \in s.cells
    THEN [cells |-> s.cells \ {cell}, count |-> s.count]
    ELSE s

Sentence_mark_mine(s, cell) ==
    IF cell \in s.cells
    THEN [cells |-> s.cells \ {cell}, count |-> s.count - 1]
    ELSE s

\* Sentence.mark_mine called once for each cell of the sequence order, in
\* that order, on the same sentence.
RECURSIVE mark_mine_each(_, _)
mark_mine_each(s, order) ==
    IF order = <<>> THEN s
    ELSE mark_mine_each(Sentence_mark_mine(s, Head(order)), Tail(order))

\* mark_safe with the decrement of mark_mine: the variant C10 is checked against.
Sentence_mark_safe_counting(s, cell) ==
    IF cell \in s.cells
    THEN [cells |-> s.cells \ {cell}, count |-> s.count - 1]
    ELSE s

Sentence_mark_safe(s, cell) ==
    IF cell \in s.cells
    THEN [cells |-> s.cells \ {cell}, count |-> s.count]
    ELSE s

-----------------------------------------------------------------------------
(* MinesweeperAI: the knowledge base as a value                             *)

KB == [height |-> height, width |-> width, moves_made |-> moves_made,
       safes |-> safes, mines |-> mines, knowledge |-> knowledge]

\* mark_mine that also takes the cell out of safes: the variant C8 is
\* checked against.
mark_mine_unsafing(kb, cell) ==
    [kb EXCEPT !.mines = @ \cup {cell},
               !.safes = @ \ {cell},
               !.knowledge = [i \in DOMAIN @ |-> Sentence_mark_mine(@[i], cell)]]

\* mark_mine that does not record the cell in mines: the variant C13 is
\* checked against.
mark_mine_unrecorded(kb, cell) ==
    [kb EXCEPT !.knowledge = [i \in DOMAIN @ |-> Sentence_mark_mine(@[i], cell)]]

mark_mine(kb, cell) ==
    [kb EXCEPT !.mines = @ \cup {cell},
               !.knowledge = [i \in DOMAIN @ |-> Sentence_mark_mine(@[i], cell)]]

\* mark_safe that also takes the cell out of mines: the variant C14 is
\* checked against.
mark_safe_unmining(kb, cell) ==
    [kb EXCEPT !.safes = @ \cup {cell},
               !.mines = @ \ {cell},
               !.knowledge = [i \in DOMAIN @ |-> Sentence_mark_safe(@[i], cell)]]

\* mark_safe without the loop over the sentences: the variant C6 is
\* checked against.
mark_safe_unpropagated(kb, cell) ==
    [kb EXCEPT !.safes = @ \cup {cell}]

mark_safe(kb, cell) ==
    [kb EXCEPT !.safes = @ \cup {cell},
               !.knowledge = [i \in DOMAIN @ |-> Sentence_mark_safe(@[i], cell)]]

\* `for cell in cells: self.mark_mine(cell)` over a snapshot of a set.
RECURSIVE mark_mine_all(_, _)
mark_mine_all(kb, cells) ==
    IF cells = {} THEN kb
    ELSE LET cell == CHOOSE x \in cells : TRUE
         IN  mark_mine_all(mark_mine(kb, cell), cells \ {cell})

\* `for cell in cells: self.mark_safe(cell)` over a snapshot of a set.
RECURSIVE mark_safe_all(_, _)
mark_safe_all(kb, cells) ==
    IF cells = {} THEN kb
    ELSE LET cell == CHOOSE x \in cells : TRUE
         IN  mark_safe_all(mark_safe(kb, cell), cells \ {cell})

\* Lines 203-212: the cells add_knowledge collects around cell. The two
\* loops run over the pairs (cell[0]-1, cell[0]+2) and (cell[1]-1, cell[1]+2).
neighbors_of(kb, cell) ==
    { n \in (0 .. kb.height - 1) \X (0 .. kb.width - 1) :
        /\ n[1] \in {cell[1] - 1, cell[1] + 2}
        /\ n[2] \in {cell[2] - 1, cell[2] + 2}
        /\ n \notin kb.safes
        /\ n \notin kb.mines
        /\ n # cell }

\* Lines 200-222 of add_knowledge: the knowledge base when the loop starts.
add_knowledge_head(kb, cell, count) ==
    LET k0 == mark_safe([kb EXCEPT !.moves_made = @ \cup {cell}], cell)
        neighbors == neighbors_of(k0, cell)
        neighbors_count == count - Cardinality(neighbors \cap k0.mines)
        k1 == IF neighbors_count = 0 THEN mark_safe_all(k0, neighbors) ELSE k0
        k2 == IF neighbors_count = Cardinality(neighbors)
              THEN mark_mine_all(k1, neighbors) ELSE k1
        s == Sentence(neighbors, neighbors_count)
    IN  [k2 EXCEPT !.knowledge = Append(@, s)]

\* Lines 225-230: the marks one iteration makes for the sentence at i.
scan_marks(kb, i) ==
    LET k1 == IF known_mines(kb.knowledge[i]) # {}
              THEN mark_mine_all(kb, known_mines(kb.knowledge[i])) ELSE kb
        k2 == IF known_safes(k1.knowledge[i]) # {}
              THEN mark_safe_all(k1, known_safes(k1.knowledge[i])) ELSE k1
    IN  k2

\* Lines 231-242: the comparison of the sentence at i with s (at position p).
scan_resolve(kb, i, p) ==
    LET sentence == kb.knowledge[i]
        s == kb.knowledge[p]
        a == sentence.cells \ s.cells
        b == s.cells \cap sentence.cells
        c == sentence.count - s.count
    IN  IF sentence = s THEN kb
        ELSE IF s.cells \subseteq sentence.cells /\ c > 0
        THEN IF s.count # 0 \/ (sentence.count = 0 /\ TRUE)
             THEN mark_safe_all(kb, b)
             ELSE [kb EXCEPT !.knowledge = Append(@, Sentence(a, c))]
        ELSE kb

\* One iteration of the loop of lines 224-242.
scan_step(kb, i, p) == scan_resolve(scan_marks(kb, i), i, p)

\* make_safe_move (lines 256-263): the cells it can return. The loop returns
\* at the first cell of safes that is not in moves_made, in the set's order.
safe_moves(kb) == kb.safes \ kb.moves_made

\* make_random_move (lines 273-278): possible_moves.
possible_moves(kb) ==
    LET excluded == IF kb.moves_made = {} THEN kb.moves_made ELSE kb.mines
    IN  { cell \in (0 .. kb.height - 2) \X (0 .. kb.width - 2) :
            cell \notin excluded }

-----------------------------------------------------------------------------
(* The state machine *)

SetKB(kb) ==
    /\ moves_made' = kb.moves_made
    /\ safes' = kb.safes
    /\ mines' = kb.mines
    /\ knowledge' = kb.knowledge

NoSentence == Sentence({}, 0)

Minefields == { b \in SUBSET Cells : Cardinality(b) = NumMines }

InitKB ==
    /\ moves_made = {}
    /\ safes = {}
    /\ mines = {}
    /\ knowledge = <<>>
    /\ pc = "idle"
    /\ idx = 0
    /\ sPos = 0
    /\ calls = 0
    /\ op = [name |-> "init"]
    /\ ret = None

\* MinesweeperAI(Height, Width): the player of the default game.
InitAI ==
    /\ height = Height
    /\ width = Width
    /\ InitKB
    /\ sen = NoSentence

Init ==
    /\ board \in Minefields
    /\ InitAI

\* add_knowledge(cell, count), lines 200-222. op keeps the arguments and the
\* locals neighbors and neighbors_count of lines 203-214, which the sentence s
\* is built from (neighbors is the same set before and after line 201, which
\* only adds cell to safes).
AddKnowledgeCall(cell, count, limit) ==
    /\ pc = "idle"
    /\ calls < limit
    /\ Len(knowledge) < MaxKnowledge
    /\ SetKB(add_knowledge_head(KB, cell, count))
    /\ pc' = "scan"
    /\ idx' = 1
    /\ sPos' = Len(knowledge) + 1
    /\ calls' = calls + 1
    /\ op' = [name |-> "add_knowledge", cell |-> cell, count |-> count,
              neighbors |-> neighbors_of(KB, cell),
              neighbors_count |->
                  count - Cardinality(neighbors_of(KB, cell) \cap mines)]
    /\ ret' = None
    /\ UNCHANGED <<height, width, board, sen>>

\* The driver's call: a revealed cell with its true count.
AddKnowledge ==
    \E cell \in Cells \ board :
        AddKnowledgeCall(cell, nearby_mines(board, cell), MaxCalls)

\* One iteration of `for sentence in self.knowledge`, lines 224-242.
ScanStep ==
    /\ pc = "scan"
    /\ idx <= Len(knowledge)
    /\ LET kb == scan_step(KB, idx, sPos)
       IN  /\ Len(kb.knowledge) <= MaxKnowledge
           /\ SetKB(kb)
    /\ idx' = idx + 1
    /\ UNCHANGED <<height, width, board, pc, sPos, calls, op, ret, sen>>

\* The loop is exhausted and add_knowledge returns.
ScanReturn ==
    /\ pc = "scan"
    /\ idx > Len(knowledge)
    /\ pc' = "idle"
    /\ idx' = 0
    /\ sPos' = 0
    /\ UNCHANGED <<height, width, board, moves_made, safes, mines, knowledge, calls, op, ret, sen>>

\* make_safe_move that records the cell it returns in moves_made: the variant
\* C20 is checked against.
MakeSafeMoveRecording ==
    /\ pc = "idle"
    /\ op' = [name |-> "make_safe_move"]
    /\ IF safe_moves(KB) # {} THEN ret' \in safe_moves(KB) ELSE ret' = None
    /\ moves_made' = IF ret' = None THEN moves_made ELSE moves_made \cup {ret'}
    /\ UNCHANGED <<height, width, board, safes, mines, knowledge, pc, idx, sPos, calls, sen>>

MakeSafeMove ==
    /\ pc = "idle"
    /\ op' = [name |-> "make_safe_move"]
    /\ IF safe_moves(KB) # {} THEN ret' \in safe_moves(KB) ELSE ret' = None
    /\ UNCHANGED <<height, width, board, moves_made, safes, mines, knowledge, pc, idx, sPos, calls, sen>>

MakeRandomMove ==
    /\ pc = "idle"
    /\ op' = [name |-> "make_random_move"]
    /\ IF possible_moves(KB) # {} THEN ret' \in possible_moves(KB) ELSE ret' = None
    /\ UNCHANGED <<height, width, board, moves_made, safes, mines, knowledge, pc, idx, sPos, calls, sen>>

Next ==
    \/ AddKnowledge
    \/ ScanStep
    \/ ScanReturn
    \/ MakeSafeMove
    \/ MakeRandomMove

Spec == Init /\ [][Next]_vars

\* The loop of add_knowledge runs on once entered: nothing suspends it.
FairSpec == Spec /\ WF_vars(ScanStep) /\ WF_vars(ScanReturn)

-----------------------------------------------------------------------------
(* The player driven through its whole interface, with any hint: calls of  *)
(* add_knowledge, mark_mine and mark_safe on the cells of the diagonal.    *)

ApiCells == { cell \in Cells : cell[1] = cell[2] }

InitApi ==
    /\ board = {}
    /\ InitAI

ApiAddKnowledge ==
    \E cell \in ApiCells, count \in 0 .. MaxCount :
        AddKnowledgeCall(cell, count, MaxApiCalls)

\* MinesweeperAI.mark_mine(cell), lines 171-173.
MarkMine ==
    \E cell \in ApiCells :
        /\ pc = "idle"
        /\ calls < MaxApiCalls
        /\ SetKB(mark_mine(KB, cell))
        /\ calls' = calls + 1
        /\ op' = [name |-> "mark_mine", cell |-> cell]
        /\ ret' = None
        /\ UNCHANGED <<height, width, board, pc, idx, sPos, sen>>

\* MinesweeperAI.mark_safe(cell), lines 180-182.
MarkSafe ==
    \E cell \in ApiCells :
        /\ pc = "idle"
        /\ calls < MaxApiCalls
        /\ SetKB(mark_safe(KB, cell))
        /\ calls' = calls + 1
        /\ op' = [name |-> "mark_safe", cell |-> cell]
        /\ ret' = None
        /\ UNCHANGED <<height, width, board, pc, idx, sPos, sen>>

NextApi ==
    \/ ApiAddKnowledge
    \/ ScanStep
    \/ ScanReturn
    \/ MarkMine
    \/ MarkSafe
    \/ MakeSafeMove
    \/ MakeRandomMove

ApiSpec == InitApi /\ [][NextApi]_vars

-----------------------------------------------------------------------------
(* The player constructed for a board of Height to MaxHeight rows, given    *)
(* add_knowledge on any cell of its board with any hint up to MaxCount.     *)

InitTall ==
    /\ height \in Height .. MaxHeight
    /\ width = Width
    /\ board = {}
    /\ InitKB
    /\ sen = NoSentence

TallAddKnowledge ==
    \E cell \in (0 .. height - 1) \X (0 .. width - 1), count \in 0 .. MaxCount :
        AddKnowledgeCall(cell, count, MaxCalls)

NextTall ==
    \/ TallAddKnowledge
    \/ ScanStep
    \/ ScanReturn

TallSpec == InitTall /\ [][NextTall]_vars

-----------------------------------------------------------------------------
(* Sentence on its own: any cell set of the diagonal with any count, and   *)
(* the four methods of the class applied to it.                            *)

Sentences ==
    { Sentence(cells, count) : cells \in SUBSET ApiCells, count \in -1 .. MaxCount + 1 }

InitSentence ==
    /\ height = Height
    /\ width = Width
    /\ board = {}
    /\ InitKB
    /\ sen \in Sentences

SentenceUnchanged ==
    UNCHANGED <<height, width, board, moves_made, safes, mines, knowledge, pc, idx, sPos>>

SentenceKnownMines ==
    /\ calls < MaxCalls
    /\ calls' = calls + 1
    /\ op' = [name |-> "known_mines", sen |-> sen]
    /\ ret' = known_mines(sen)
    /\ UNCHANGED sen
    /\ SentenceUnchanged

SentenceKnownSafes ==
    /\ calls < MaxCalls
    /\ calls' = calls + 1
    /\ op' = [name |-> "known_safes", sen |-> sen]
    /\ ret' = known_safes(sen)
    /\ UNCHANGED sen
    /\ SentenceUnchanged

SentenceMarkMine ==
    \E cell \in ApiCells :
        /\ calls < MaxCalls
        /\ calls' = calls + 1
        /\ op' = [name |-> "Sentence.mark_mine", sen |-> sen, cell |-> cell]
        /\ sen' = Sentence_mark_mine(sen, cell)
        /\ ret' = None
        /\ SentenceUnchanged

SentenceMarkSafe ==
    \E cell \in ApiCells :
        /\ calls < MaxCalls
        /\ calls' = calls + 1
        /\ op' = [name |-> "Sentence.mark_safe", sen |-> sen, cell |-> cell]
        /\ sen' = Sentence_mark_safe(sen, cell)
        /\ ret' = None
        /\ SentenceUnchanged

\* The orders in which the cells of a set can be taken one at a time.
Orders(cells) ==
    { order \in [1 .. Cardinality(cells) -> cells] :
        \A i, j \in DOMAIN order : i # j => order[i] # order[j] }

\* mark_mine called once for each cell of the sentence, in any order.
SentenceMarkMineEach ==
    \E order \in Orders(sen.cells) :
        /\ calls < MaxCalls
        /\ calls' = calls + 1
        /\ op' = [name |-> "mark_mine_each", sen |-> sen, order |-> order]
        /\ sen' = mark_mine_each(sen, order)
        /\ ret' = None
        /\ SentenceUnchanged

NextSentence ==
    \/ SentenceKnownMines
    \/ SentenceKnownSafes
    \/ SentenceMarkMine
    \/ SentenceMarkSafe
    \/ SentenceMarkMineEach

SentenceSpec == InitSentence /\ [][NextSentence]_vars

-----------------------------------------------------------------------------
(* Properties *)

\* add_knowledge has returned: the state its caller observes.
Returned == pc = "idle" /\ op.name = "add_knowledge"

\* The loop of add_knowledge can never end from here: s is the empty sentence
\* with count 0, no sentence still to be visited yields a mark (so no sentence
\* changes any more), and one of them has a count above 0: visiting it
\* appends a copy of it (lines 236-242), which is visited in turn.
Diverging ==
    /\ pc = "scan"
    /\ knowledge[sPos] = Sentence({}, 0)
    /\ \A i \in idx .. Len(knowledge) :
          known_mines(knowledge[i]) = {} /\ known_safes(knowledge[i]) = {}
    /\ \E i \in idx .. Len(knowledge) : knowledge[i].count > 0

\* No step leaves Diverging, and add_knowledge does not return in it.
DivergingForever == [][Diverging => Diverging' /\ pc' = "scan"]_vars

\* MaxKnowledge stops a loop only where it would never end by itself.
StoppedOnlyIfDiverging ==
    (pc = "scan" /\ idx <= Len(knowledge) /\ ~ENABLED ScanStep) => Diverging

\* Every loop that is entered ends, when the loop is never suspended.
Terminates == (pc = "scan") ~> (pc = "idle")

\* C1: with true hints, after add_knowledge returns no cell of safes holds a
\* mine and every cell of mines holds one.
C1_Soundness ==
    pc = "idle" => (\A cell \in safes : ~is_mine(board, cell))
                   /\ (\A cell \in mines : is_mine(board, cell))

\* C2: every call of add_knowledge returns, also when the new sentence is
\* empty with count 0 and the list holds a sentence with a count above 0.
\* On finite runs: no call reaches a state from which its loop cannot end.
C2_Returns == ~Diverging

\* C3: with true hints, safes and mines are disjoint in every state.
C3_Disjoint == safes \cap mines = {}

\* C4: make_safe_move returns a cell of safes that is not in moves_made when
\* there is one and None exactly when there is none, and never a cell of
\* moves_made or of mines.
C4_SafeMove ==
    op.name = "make_safe_move" =>
        /\ IF safes \ moves_made # {} THEN ret \in safes \ moves_made ELSE ret = None
        /\ ret \notin moves_made
        /\ ret \notin mines

\* C5: make_random_move returns only cells that are in neither moves_made nor
\* mines, every such cell of the whole board is a possible result, and it
\* returns None exactly when there is no such cell.
C5_RandomMove ==
    op.name = "make_random_move" =>
        /\ possible_moves(KB) = Cells \ (moves_made \cup mines)
        /\ IF Cells \ (moves_made \cup mines) # {}
           THEN ret \in Cells \ (moves_made \cup mines)
           ELSE ret = None

\* C6: after add_knowledge returns, in any sequence of add_knowledge,
\* mark_mine and mark_safe calls, no sentence of the knowledge list holds a
\* cell of safes or of mines.
C6_NoConfirmedCell ==
    pc = "idle" =>
        \A i \in DOMAIN knowledge : knowledge[i].cells \cap (safes \cup mines) = {}

\* C6 happens: add_knowledge has returned, it marked a cell that a stored
\* sentence held, and that sentence still holds other cells.
C6_Witness ==
    /\ Returned
    /\ safes \ moves_made # {}
    /\ \E i \in DOMAIN knowledge :
          /\ knowledge[i].cells # {}
          /\ \E n \in neighbors_of([KB EXCEPT !.safes = {}, !.mines = {}], op.cell) :
                n \in safes \cup mines

\* C7: with true hints, after add_knowledge returns every sentence has
\* 0 <= count <= number of its cells.
C7_CountInRange ==
    pc = "idle" =>
        \A i \in DOMAIN knowledge :
            /\ 0 <= knowledge[i].count
            /\ knowledge[i].count <= Cardinality(knowledge[i].cells)

\* C8: no step of any call removes a cell from moves_made, safes or mines.
C8_Monotonic ==
    [][/\ moves_made \subseteq moves_made'
       /\ safes \subseteq safes'
       /\ mines \subseteq mines']_vars

\* C8 happens: calls have put cells in all three sets, one cell in both
\* safes and mines.
C8_Witness ==
    /\ moves_made # {}
    /\ safes \cap mines # {}
    /\ calls >= 2

\* C9: known_mines returns the cell set when the number of cells equals count
\* and count > 0, else the empty set; known_safes returns the cell set when
\* count = 0, else the empty set.
C9_Known ==
    /\ op.name = "known_mines" =>
          ret = (IF Cardinality(op.sen.cells) = op.sen.count /\ op.sen.count > 0
                 THEN op.sen.cells ELSE {})
    /\ op.name = "known_safes" =>
          ret = (IF op.sen.count = 0 THEN op.sen.cells ELSE {})

\* C9 happens: known_mines has returned a sentence's cells.
C9_Witness == op.name = "known_mines" /\ ret # {} /\ ret = op.sen.cells

\* C10: Sentence.mark_mine removes a cell of the sentence and lowers count by
\* 1, Sentence.mark_safe removes it and keeps count, both change nothing when
\* the cell is absent, and a second application with the same cell changes
\* nothing.
C10_SentenceMark ==
    /\ op.name = "Sentence.mark_mine" =>
          /\ IF op.cell \in op.sen.cells
             THEN sen.cells = op.sen.cells \ {op.cell} /\ sen.count = op.sen.count - 1
             ELSE sen = op.sen
          /\ Sentence_mark_mine(sen, op.cell) = sen
    /\ op.name = "Sentence.mark_safe" =>
          /\ IF op.cell \in op.sen.cells
             THEN sen.cells = op.sen.cells \ {op.cell} /\ sen.count = op.sen.count
             ELSE sen = op.sen
          /\ Sentence_mark_safe(sen, op.cell) = sen

\* C10 happens: Sentence.mark_safe has removed a cell of a sentence with a
\* count other than 0.
C10_Witness ==
    /\ op.name = "Sentence.mark_safe"
    /\ op.cell \in op.sen.cells
    /\ op.sen.count > 0
    /\ sen.cells # {}

\* C11: after add_knowledge(cell, 0) returns, every cell of the board in the
\* 3x3 block centred on cell is in safes.
C11_ZeroHint ==
    (Returned /\ op.count = 0) =>
        (nearby_cells(op.cell) \cup {op.cell}) \subseteq safes

\* C12: after add_knowledge returns, any two distinct sentences A and B of
\* knowledge with the cells of A, not empty, a proper subset of the cells of
\* B are resolved: the cells D that B has more are all in safes when the
\* counts are equal, all in mines when the counts differ by their number,
\* and otherwise knowledge holds the sentence over the cells of D in neither
\* set, with the difference of the counts less the mines among D. (The pairs
\* knowledge holds when the loop ends are among the pairs it holds during
\* the call.)
C12_SubsetClosed ==
    Returned =>
        \A i, j \in DOMAIN knowledge :
            LET A == knowledge[i]
                B == knowledge[j]
                D == B.cells \ A.cells
                c == B.count - A.count
            IN  (A.cells # {} /\ A.cells \subseteq B.cells /\ D # {}) =>
                    IF c = 0 THEN D \subseteq safes
                    ELSE IF c = Cardinality(D) THEN D \subseteq mines
                    ELSE \E k \in DOMAIN knowledge :
                            knowledge[k] = Sentence(D \ (safes \cup mines),
                                                    c - Cardinality(D \cap mines))

\* C13: when the sentence add_knowledge builds has a non-empty cell set and
\* a count equal to the number of its cells, then after the call returns
\* every cell of that sentence is in mines and none of them is in safes.
C13_DirectMines ==
    (/\ Returned
     /\ op.neighbors # {}
     /\ op.neighbors_count = Cardinality(op.neighbors))
    => (op.neighbors \subseteq mines /\ op.neighbors \cap safes = {})

\* C13 happens: a call that built a sentence of two or more cells, all of
\* them mines by its count, has returned.
C13_Witness ==
    /\ Returned
    /\ Cardinality(op.neighbors) >= 2
    /\ op.neighbors_count = Cardinality(op.neighbors)
    /\ op.neighbors \subseteq mines

\* C14: a call of MinesweeperAI.mark_mine(cell) adds cell to mines, takes it
\* out of every sentence that contains it and lowers that sentence's count by
\* 1, and leaves safes, moves_made, the number and order of the sentences and
\* every sentence without the cell as they were; mark_safe(cell) does the
\* same with safes in the place of mines and with no change of count.
C14_MarkFrame ==
    [][/\ (calls' = calls + 1 /\ op'.name = "mark_mine") =>
            /\ mines' = mines \cup {op'.cell}
            /\ safes' = safes
            /\ moves_made' = moves_made
            /\ Len(knowledge') = Len(knowledge)
            /\ \A i \in DOMAIN knowledge :
                  knowledge'[i] =
                      IF op'.cell \in knowledge[i].cells
                      THEN Sentence(knowledge[i].cells \ {op'.cell},
                                    knowledge[i].count - 1)
                      ELSE knowledge[i]
       /\ (calls' = calls + 1 /\ op'.name = "mark_safe") =>
            /\ safes' = safes \cup {op'.cell}
            /\ mines' = mines
            /\ moves_made' = moves_made
            /\ Len(knowledge') = Len(knowledge)
            /\ \A i \in DOMAIN knowledge :
                  knowledge'[i] =
                      IF op'.cell \in knowledge[i].cells
                      THEN Sentence(knowledge[i].cells \ {op'.cell},
                                    knowledge[i].count)
                      ELSE knowledge[i]]_vars

\* C14 happens: mark_mine has taken a cell out of a sentence and lowered its
\* count to 0 while the sentence keeps other cells, and knowledge holds two
\* sentences.
C14_Witness ==
    /\ op.name = "mark_mine"
    /\ pc = "idle"
    /\ Len(knowledge) >= 2
    /\ \E i \in DOMAIN knowledge :
          /\ knowledge[i].cells # {}
          /\ knowledge[i].count = 0
          /\ op.cell \notin knowledge[i].cells

\* C15: the sentence add_knowledge builds has for cells the cells of the 3x3
\* block around cell that are on the board, are not cell and are in neither
\* safes nor mines, and for count the hint less the number of cells of the
\* block that are in mines.
C15_BuiltSentence ==
    [][(pc = "idle" /\ pc' = "scan") =>
            knowledge'[sPos'] =
                Sentence(nearby_cells(op'.cell) \ (safes \cup mines),
                         op'.count - Cardinality(nearby_cells(op'.cell) \cap mines))]_vars

\* C16: after add_knowledge returns, no sentence of knowledge has a non-empty
\* known_mines() or known_safes(), also when a mark made late in the loop
\* has shrunk a sentence the loop had already visited.
C16_Fixpoint ==
    Returned =>
        \A i \in DOMAIN knowledge :
            known_mines(knowledge[i]) = {} /\ known_safes(knowledge[i]) = {}

\* C17: after add_knowledge returns, knowledge holds no two sentences with
\* the same cells and the same count.
C17_NoDuplicates ==
    Returned =>
        \A i, j \in DOMAIN knowledge : i # j => knowledge[i] # knowledge[j]

\* C18: after add_knowledge returns, knowledge holds no sentence whose cell
\* set is empty.
C18_NoEmptySentence ==
    Returned => \A i \in DOMAIN knowledge : knowledge[i].cells # {}

\* C19, as the code has it: calling Sentence.mark_mine once for each cell of
\* a sentence, in any order, leaves the sentence with no cells and with its
\* count lowered by the number of cells it had, which is 0 exactly when the
\* count was the number of cells.
C19_RoundTrip ==
    op.name = "mark_mine_each" =>
        /\ sen.cells = {}
        /\ sen.count = op.sen.count - Cardinality(op.sen.cells)
        /\ sen.count = 0 <=> op.sen.count = Cardinality(op.sen.cells)

\* C19 as stated: calling Sentence.mark_mine once for each cell of a
\* sentence, in any order, leaves the sentence with no cells and count 0
\* (checked for the sentences with a count from 0 to their number of cells).
C19_RoundTripZero ==
    (/\ op.name = "mark_mine_each"
     /\ op.sen.count >= 0
     /\ op.sen.count <= Cardinality(op.sen.cells))
    => sen = Sentence({}, 0)

\* C19 happens: mark_mine has been called for each of the three or more cells
\* of a sentence, not in the order of the cells' coordinates, and the count
\* has come down from 1 to below 0.
C19_Witness ==
    /\ op.name = "mark_mine_each"
    /\ Cardinality(op.sen.cells) >= 3
    /\ op.order[1][1] > op.order[2][1]
    /\ op.sen.count = 1
    /\ sen = Sentence({}, 1 - Cardinality(op.sen.cells))

\* C20: a call of make_safe_move or of make_random_move leaves moves_made,
\* safes, mines and every sentence of knowledge as they were, whatever it
\* returns.
C20_ReadOnlyMoves ==
    [][op'.name \in {"make_safe_move", "make_random_move"} =>
            UNCHANGED <<moves_made, safes, mines, knowledge>>]_vars

\* C20 happens: make_safe_move has returned a cell while knowledge holds a
\* sentence with cells and mines is not empty.
C20_Witness ==
    /\ op.name = "make_safe_move"
    /\ ret \in safes
    /\ ret \notin moves_made
    /\ mines # {}
    /\ \E i \in DOMAIN knowledge : knowledge[i].cells # {}

====
